---- MODULE Spec2Model ----
(***************************************************************************)
(* Model of syn-inline-mod: candidate path generation (src/mod_path.rs),   *)
(* the file resolver (src/resolver.rs), the recursive inlining visitor     *)
(* (src/visitor.rs) and the entry call with its error log (src/lib.rs).    *)
(*                                                                         *)
(* A path is the raw text of a PathBuf, written as a sequence of text      *)
(* pieces: the separator "/", the dot "." and words that contain neither   *)
(* (<<"src","/","lib",".","rs">> is src/lib.rs).  The recursion of nested   *)
(* visitors is an explicit stack of visitor frames.                        *)
(***************************************************************************)
EXTENDS Integers, Sequences, FiniteSets, TLC

VARIABLES
    fs,          \* the backing store of the resolver: location -> entry
    builder,     \* the InlinerBuilder: root and annotate_paths
    src_file,    \* the location given to the entry call
    pc,          \* "idle" before the entry call, "running", "done" after it
    stack,       \* the chain of live Visitor values, outermost first
    error_log,   \* `errors` of parse_internal, shared by every visitor
    files_seen,  \* what the on_load callback has received, in order
    resolved,    \* every call of FileResolver::resolve, in order
    visited,     \* every bodiless declaration met, with its candidates
    expanded,    \* every declaration that got a body, with its new attributes
    result,      \* what the entry call returned
    probe        \* one application of ModContext::relative_to

vars == <<fs, builder, src_file, pc, stack, error_log, files_seen, resolved,
          visited, expanded, result, probe>>

Sep == "/"
Dot == "."

Last(s) == s[Len(s)]
Front(s) == SubSeq(s, 1, Len(s) - 1)

RECURSIVE Flatten(_)
Flatten(ss) == IF ss = <<>> THEN <<>> ELSE Head(ss) \o Flatten(Tail(ss))

(***************************************************************************)
(* std::path                                                               *)
(***************************************************************************)

\* The raw pieces between separators, empty ones included.
RECURSIVE SplitFrom(_, _, _, _)
SplitFrom(p, d, done, piece) ==
    IF p = <<>> THEN Append(done, piece)
    ELSE IF Head(p) = d THEN SplitFrom(Tail(p), d, Append(done, piece), <<>>)
    ELSE SplitFrom(Tail(p), d, done, Append(piece, Head(p)))

SplitOn(p, d) == SplitFrom(p, d, <<>>, <<>>)

has_root(p) == p # <<>> /\ p[1] = Sep

\* Path::components: empty pieces and "." pieces vanish, except a leading ".".
\* Each component keeps the index of its piece.
RECURSIVE KeepFrom(_, _)
KeepFrom(ps, i) ==
    IF i > Len(ps) THEN <<>>
    ELSE (IF ps[i] # <<>> /\ (ps[i] = <<Dot>> => i = 1)
          THEN <<[i |-> i, c |-> ps[i]]>> ELSE <<>>)
         \o KeepFrom(ps, i + 1)

Components(p) == KeepFrom(SplitOn(p, Sep), 1)

RECURSIVE Glue(_, _, _)
Glue(ps, i, upto) ==
    IF i > upto THEN <<>>
    ELSE ps[i] \o (IF i < upto THEN <<Sep>> ELSE <<>>) \o Glue(ps, i + 1, upto)

\* The raw text of p up to the end of its n-th component (Components::as_path).
RawPrefix(p, n) ==
    IF n = 0 THEN (IF has_root(p) THEN <<Sep>> ELSE <<>>)
    ELSE Glue(SplitOn(p, Sep), 1, Components(p)[n].i)

None == [some |-> FALSE, v |-> <<>>]
Some(x) == [some |-> TRUE, v |-> x]

\* Path::file_name
file_name(p) ==
    LET cs == Components(p)
    IN IF cs = <<>> THEN None
       ELSE LET c == Last(cs).c
            IN IF c = <<Dot, Dot>> \/ c = <<Dot>> THEN None ELSE Some(c)

\* Index of the last Dot of a file name, 0 when there is none.
LastDot(name) ==
    LET ds == {i \in 1..Len(name) : name[i] = Dot}
    IN IF ds = {} THEN 0 ELSE CHOOSE i \in ds : \A j \in ds : j <= i

\* Path::file_stem
file_stem(p) ==
    LET fname == file_name(p)
    IN IF ~fname.some THEN None
       ELSE LET d == LastDot(fname.v)
            IN IF d <= 1 THEN Some(fname.v)
               ELSE Some(SubSeq(fname.v, 1, d - 1))

\* Path::parent
parent(p) ==
    LET cs == Components(p)
    IN IF cs = <<>> THEN None ELSE Some(RawPrefix(p, Len(cs) - 1))

\* PathBuf::pop
pop_path(p) == IF parent(p).some THEN parent(p).v ELSE p

\* PathBuf::push / Path::join
join(a, b) ==
    IF has_root(b) THEN b
    ELSE IF a = <<>> \/ Last(a) = Sep THEN a \o b
    ELSE a \o <<Sep>> \o b

\* PathBuf::set_extension
set_extension(p, ext) ==
    IF ~file_stem(p).some THEN p
    ELSE LET cs == Components(p)
             before == RawPrefix(p, Len(cs) - 1)
             lead == IF before = <<>> \/ Last(before) = Sep THEN before
                     ELSE before \o <<Sep>>
         IN lead \o file_stem(p).v \o (IF ext = <<>> THEN <<>> ELSE <<Dot>> \o ext)

\* PathBuf equality (and HashMap lookup) compares components, not raw text.
ComponentNames(cs) == [i \in 1..Len(cs) |-> cs[i].c]
SamePath(p, q) ==
    \/ p = q
    \/ /\ has_root(p) = has_root(q)
       /\ ComponentNames(Components(p)) = ComponentNames(Components(q))

(***************************************************************************)
(* syn: attributes and items                                               *)
(***************************************************************************)

\* An attribute: `inner` is its style (#![..]), `meta` the shape of its
\* argument (Meta::Path, Meta::List, Meta::NameValue), `lit` the kind of the
\* literal of a NameValue, `value` the string's value or the list's tokens.
Attr(name, inner, meta, lit, value) ==
    [name |-> name, inner |-> inner, meta |-> meta, lit |-> lit, value |-> value]

WordAttr(name) == Attr(name, FALSE, "Path", "None", <<>>)
InnerWordAttr(name) == Attr(name, TRUE, "Path", "None", <<>>)
PathAttr(p) == Attr("path", FALSE, "NameValue", "Str", p)

\* An item: a module declaration (kind "mod", with or without content) or
\* anything else, taken to hold no module declaration inside it.  `span` is
\* the line of the item in its file.
ModDecl(ident, attrs, span) ==
    [kind |-> "mod", ident |-> ident, attrs |-> attrs, content |-> FALSE,
     items |-> <<>>, span |-> span]
ModInline(ident, attrs, items, span) ==
    [kind |-> "mod", ident |-> ident, attrs |-> attrs, content |-> TRUE,
     items |-> items, span |-> span]
OtherItem(ident, span) ==
    [kind |-> "other", ident |-> ident, attrs |-> <<>>, content |-> FALSE,
     items |-> <<>>, span |-> span]

SynFile(attrs, items) == [attrs |-> attrs, items |-> items]

(***************************************************************************)
(* src/mod_path.rs                                                         *)
(***************************************************************************)

IdentSegment(ident) == [kind |-> "Ident", value |-> <<ident>>]
PathSegment(p) == [kind |-> "Path", value |-> p]

is_ident(seg) == seg.kind = "Ident"

ModSegmentFrom_ident_only(item) == IdentSegment(item.ident)

\* impl From<&ItemMod> for ModSegment: the first `path = "..."` attribute
\* wins, otherwise the identifier.
ModSegmentFrom(item) ==
    LET hits == {i \in 1..Len(item.attrs) :
                    /\ item.attrs[i].meta = "NameValue"
                    /\ item.attrs[i].name = "path"
                    /\ item.attrs[i].lit = "Str"}
    IN IF hits = {} THEN IdentSegment(item.ident)
       ELSE PathSegment(item.attrs[CHOOSE i \in hits : \A j \in hits : i <= j].value)

\* impl From<ModSegment> for PathBuf
SegmentPath(seg) == seg.value

\* ModContext::push, ModContext::pop
push(ctx, seg) == Append(ctx, seg)

pop_nothing(ctx) == ctx

pop(ctx) == IF ctx = <<>> THEN ctx ELSE Front(ctx)

is_mod_file_never(p) == FALSE

\* ModPath::is_mod_file
is_mod_file(p) == file_name(p).some /\ file_name(p).v = <<"mod", Dot, "rs">>

\* ModContext::is_last_ident
is_last_ident(ctx) == ctx # <<>> /\ is_ident(Last(ctx))

RECURSIVE PushAll(_, _)
PushAll(buf, ctx) ==
    IF ctx = <<>> THEN buf
    ELSE PushAll(join(buf, SegmentPath(Head(ctx))), Tail(ctx))

to_path_bufs_no_early_return(ctx) ==
    LET buf == PushAll(<<>>, ctx)
    IN <<set_extension(buf, <<"rs">>), join(buf, <<"mod", Dot, "rs">>)>>

to_path_bufs_swapped(ctx) ==
    LET buf == PushAll(<<>>, ctx)
    IN IF ~is_last_ident(ctx) THEN <<buf>>
       ELSE <<join(buf, <<"mod", Dot, "rs">>), set_extension(buf, <<"rs">>)>>

\* ModContext::to_path_bufs
to_path_bufs(ctx) ==
    LET buf == PushAll(<<>>, ctx)
    IN IF ~is_last_ident(ctx) THEN <<buf>>
       ELSE <<set_extension(buf, <<"rs">>), join(buf, <<"mod", Dot, "rs">>)>>

relative_to_ignoring_mod_file(ctx, base, root) ==
    LET up == pop_path(base)
        dir == IF root THEN up ELSE join(up, file_stem(base).v)
        ends == to_path_bufs(ctx)
    IN [i \in 1..Len(ends) |-> join(dir, ends[i])]

\* ModContext::relative_to.  file_stem().unwrap() panics on a base without a
\* file name; no file that was read has such a location.
relative_to(ctx, base, root) ==
    LET up == pop_path(base)
        dir == IF root \/ is_mod_file(base) THEN up
               ELSE join(up, file_stem(base).v)
        ends == to_path_bufs(ctx)
    IN [i \in 1..Len(ends) |-> join(dir, ends[i])]

(***************************************************************************)
(* The source files of the model: locations and their texts               *)
(***************************************************************************)

Rs == <<Dot, "rs">>
P_lib == <<"src", Sep, "lib">> \o Rs
P_first == <<"src", Sep, "first">> \o Rs
P_first_mod == <<"src", Sep, "first", Sep, "mod">> \o Rs
P_second == <<"src", Sep, "first", Sep, "second">> \o Rs
P_fourth == <<"src", Sep, "first", Sep, "second", Sep, "third", Sep, "fourth">> \o Rs
P_deep == <<"src", Sep, "inl", Sep, "deep">> \o Rs
P_alt == <<"src", Sep, "al", "\\", "t">> \o Rs
P_stale == <<"src", Sep, "stale">> \o Rs
P_inlined == <<"src", Sep, "inlined">> \o Rs
P_cyc == <<"src", Sep, "cyc", Sep, "mod">> \o Rs
P_dia == <<"src", Sep, "dia">> \o Rs

Locations == {P_lib, P_first, P_first_mod, P_second, P_fourth, P_deep, P_alt, P_stale}

\* The text a location holds when nothing is wrong with it.
TextOf(p) ==
    CASE p = P_lib -> "lib"
      [] p = P_first -> "first"
      [] p = P_first_mod -> "first_mod"
      [] p = P_second -> "second"
      [] p = P_fourth -> "fourth"
      [] p = P_deep -> "deep"
      [] p = P_alt -> "alt"
      [] p = P_stale -> "stale"
      [] p = P_inlined -> "inlined"
      [] p = P_cyc -> "cyc"
      [] p = P_dia -> "dia"

\* The marker a declaration of lib.rs already carries: syn_inline_mod_path(b"o")
StaleMarker == Attr("syn_inline_mod_path", FALSE, "List", "None", <<"b", "\"", "o", "\"">>)

\* syn::parse_file on each text; "garbage" is the text that does not parse.
ParsedText(text) ==
    CASE text = "lib" ->
            SynFile(<<InnerWordAttr("crate_attr")>>,
                <<ModDecl("first", <<WordAttr("outer_attr")>>, 1),
                  OtherItem("f", 2),
                  ModInline("inl", <<>>, <<ModDecl("deep", <<>>, 4)>>, 3),
                  ModDecl("first", <<WordAttr("cfg"), PathAttr(<<"al", "\\", "t">> \o Rs)>>, 6),
                  ModDecl("stale", <<StaleMarker>>, 8)>>)
      [] text = "first" ->
            SynFile(<<InnerWordAttr("inner_attr")>>, <<ModDecl("second", <<>>, 1)>>)
      [] text = "first_mod" ->
            SynFile(<<>>, <<OtherItem("g", 1), ModDecl("second", <<>>, 2)>>)
      [] text = "second" ->
            SynFile(<<>>,
                <<ModInline("third", <<WordAttr("doc")>>, <<ModDecl("fourth", <<>>, 2)>>, 1),
                  OtherItem("sample", 4)>>)
      [] text = "fourth" -> SynFile(<<>>, <<OtherItem("another_fn", 1)>>)
      [] text = "deep" -> SynFile(<<>>, <<>>)
      [] text = "alt" -> SynFile(<<InnerWordAttr("doc")>>, <<OtherItem("M2", 1)>>)
      [] text = "stale" -> SynFile(<<>>, <<OtherItem("h", 1)>>)
      [] text = "inlined" ->
            SynFile(<<>>,
                <<ModInline("outer", <<WordAttr("doc")>>,
                      <<OtherItem("k", 2),
                        ModInline("nested", <<PathAttr(<<"n">> \o Rs)>>,
                                  <<OtherItem("m", 4)>>, 3)>>, 1),
                  OtherItem("z", 5)>>)
      [] text = "cyc" ->
            SynFile(<<>>,
                <<OtherItem("before", 1),
                  ModDecl("gone", <<>>, 2),
                  ModDecl("me", <<PathAttr(<<"mod">> \o Rs)>>, 3),
                  OtherItem("after", 4)>>)
      [] text = "dia" ->
            SynFile(<<>>,
                <<ModDecl("a", <<PathAttr(<<"first", Sep, "second">> \o Rs)>>, 1),
                  ModDecl("b", <<PathAttr(<<"first", Sep, "second">> \o Rs)>>, 2)>>)
      [] OTHER -> SynFile(<<>>, <<>>)

Parses(text) == text # "garbage"

(***************************************************************************)
(* src/lib.rs: Error                                                       *)
(***************************************************************************)

IoError(k) == [kind |-> "Io", io |-> k]
ParseError == [kind |-> "Parse", io |-> ""]
NoError == [kind |-> "", io |-> ""]

Ok(file) == [ok |-> TRUE, file |-> file, err |-> NoError]
Err(e) == [ok |-> FALSE, file |-> SynFile(<<>>, <<>>), err |-> e]

(***************************************************************************)
(* src/resolver.rs: FsResolver                                             *)
(***************************************************************************)

Absent == [state |-> "absent", text |-> ""]
Unreadable == [state |-> "unreadable", text |-> ""]
FileWith(text) == [state |-> "file", text |-> text]

\* What the store holds at a location.
Lookup(fsv, p) ==
    IF p \in DOMAIN fsv THEN fsv[p]
    ELSE LET hits == {q \in DOMAIN fsv : SamePath(p, q)}
         IN IF hits = {} THEN Absent ELSE fsv[CHOOSE q \in hits : TRUE]

\* FsResolver::path_exists
path_exists(fsv, p) == Lookup(fsv, p).state # "absent"

\* std::fs::read_to_string
read_to_string(fsv, p) ==
    LET e == Lookup(fsv, p)
    IN CASE e.state = "file" -> [ok |-> TRUE, src |-> e.text, err |-> NoError]
         [] e.state = "absent" -> [ok |-> FALSE, src |-> "", err |-> IoError("NotFound")]
         [] OTHER -> [ok |-> FALSE, src |-> "", err |-> IoError("PermissionDenied")]

\* syn::parse_file
parse_file(src) == IF Parses(src) THEN Ok(ParsedText(src)) ELSE Err(ParseError)

resolve_silent_on_parse_error(fsv, p) ==
    LET rd == read_to_string(fsv, p)
    IN IF ~rd.ok THEN [res |-> Err(rd.err), on_load |-> <<>>]
       ELSE [res |-> parse_file(rd.src),
             on_load |-> IF Parses(rd.src) THEN <<[path |-> p, contents |-> rd.src]>>
                         ELSE <<>>]

\* FsResolver::resolve: the result, and the calls of on_load it makes.
resolve(fsv, p) ==
    LET rd == read_to_string(fsv, p)
    IN IF ~rd.ok THEN [res |-> Err(rd.err), on_load |-> <<>>]
       ELSE [res |-> parse_file(rd.src),
             on_load |-> <<[path |-> p, contents |-> rd.src]>>]

(***************************************************************************)
(* src/lib.rs: the provenance marker and find_mod_path                     *)
(***************************************************************************)

SYN_INLINE_MOD_PATH == "syn_inline_mod_path"

\* The characters of each piece of path text.
Chars(w) ==
    CASE w = "src" -> <<"s", "r", "c">>
      [] w = "lib" -> <<"l", "i", "b">>
      [] w = "rs" -> <<"r", "s">>
      [] w = "mod" -> <<"m", "o", "d">>
      [] w = "first" -> <<"f", "i", "r", "s", "t">>
      [] w = "second" -> <<"s", "e", "c", "o", "n", "d">>
      [] w = "third" -> <<"t", "h", "i", "r", "d">>
      [] w = "fourth" -> <<"f", "o", "u", "r", "t", "h">>
      [] w = "inl" -> <<"i", "n", "l">>
      [] w = "deep" -> <<"d", "e", "e", "p">>
      [] w = "al" -> <<"a", "l">>
      [] w = "stale" -> <<"s", "t", "a", "l", "e">>
      [] w = "cyc" -> <<"c", "y", "c">>
      [] OTHER -> <<w>>

\* OsStrBytes::to_bytes: the raw bytes of a path, one character each.
to_bytes(p) == Flatten([i \in 1..Len(p) |-> Chars(p[i])])

\* The text between the quotes of a byte string literal.
RECURSIVE Escape(_)
Escape(bs) ==
    IF bs = <<>> THEN <<>>
    ELSE (IF Head(bs) \in {"\\", "\""} THEN <<"\\", Head(bs)>> ELSE <<Head(bs)>>)
         \o Escape(Tail(bs))

RECURSIVE WellEscaped(_)
WellEscaped(cs) ==
    IF cs = <<>> THEN TRUE
    ELSE IF Head(cs) = "\\"
         THEN Len(cs) >= 2 /\ cs[2] \in {"\\", "\""} /\ WellEscaped(SubSeq(cs, 3, Len(cs)))
         ELSE Head(cs) # "\"" /\ WellEscaped(Tail(cs))

RECURSIVE Unescape(_)
Unescape(cs) ==
    IF cs = <<>> THEN <<>>
    ELSE IF Head(cs) = "\\" THEN <<cs[2]>> \o Unescape(SubSeq(cs, 3, Len(cs)))
    ELSE <<Head(cs)>> \o Unescape(Tail(cs))

\* LitByteStr::new: the literal b"..." as written in the token stream.
LitByteStrNew(bs) == <<"b", "\"">> \o Escape(bs) \o <<"\"">>

\* Attribute::parse_args::<LitByteStr> followed by LitByteStr::value.
ParseLitByteStr(attr) ==
    LET t == attr.value
        inside == SubSeq(t, 3, Len(t) - 1)
    IN IF /\ attr.meta = "List"
          /\ Len(t) >= 3 /\ t[1] = "b" /\ t[2] = "\"" /\ Last(t) = "\""
          /\ WellEscaped(inside)
       THEN Some(Unescape(inside))
       ELSE None

\* parse_quote! { #[#attr_ident(#path)] } of visit_item_mod_mut
MarkerAttr(candidate) ==
    Attr(SYN_INLINE_MOD_PATH, FALSE, "List", "None", LitByteStrNew(to_bytes(candidate)))

NoModPath == [some |-> FALSE, path |-> <<>>, outer_attributes |-> <<>>,
              inner_attributes |-> <<>>]

\* find_mod_path: `path` is the bytes given to PathBuf::from_vec.
find_mod_path(attrs) ==
    LET hits == {i \in 1..Len(attrs) :
                    /\ attrs[i].name = SYN_INLINE_MOD_PATH
                    /\ ParseLitByteStr(attrs[i]).some}
    IN IF hits = {} THEN NoModPath
       ELSE LET position == CHOOSE i \in hits : \A j \in hits : i <= j
            IN [some |-> TRUE,
                path |-> ParseLitByteStr(attrs[position]).v,
                outer_attributes |-> SubSeq(attrs, 1, position - 1),
                inner_attributes |-> SubSeq(attrs, position + 1, Len(attrs))]

(***************************************************************************)
(* src/lib.rs: InlineError, InliningResult                                 *)
(***************************************************************************)

InlineErrorNew_swapped(src_path, item_mod, path, kind) ==
    [src_path |-> path, module_name |-> item_mod.ident, src_span |-> item_mod.span,
     path |-> src_path, kind |-> kind]

\* InlineError::new
InlineErrorNew(src_path, item_mod, path, kind) ==
    [src_path |-> src_path, module_name |-> item_mod.ident, src_span |-> item_mod.span,
     path |-> path, kind |-> kind]

\* InliningResult::new, and the Err of parse_internal
InliningResultNew(output, errors, paths_annotated) ==
    [ok |-> TRUE, output |-> output, errors |-> errors,
     paths_annotated |-> paths_annotated, err |-> NoError]
EntryErr_swallowed(e) ==
    [ok |-> TRUE, output |-> SynFile(<<>>, <<>>), errors |-> <<>>,
     paths_annotated |-> FALSE, err |-> NoError]
EntryErr(e) ==
    [ok |-> FALSE, output |-> SynFile(<<>>, <<>>), errors |-> <<>>,
     paths_annotated |-> FALSE, err |-> e]
NoResult == EntryErr(NoError)

\* InliningResult::has_errors
has_errors(r) == r.errors # <<>>

(***************************************************************************)
(* src/visitor.rs                                                          *)
(***************************************************************************)

MaxDepth == 5      \* most visitors alive at once
MaxFaults == 2     \* most locations that are absent, unreadable or garbled

VisitorNew_as_root(path, root, annotate_paths, has_log) ==
    [path |-> path, root |-> TRUE, annotate_paths |-> annotate_paths,
     error_log |-> has_log, mod_context |-> <<>>,
     syntax |-> SynFile(<<>>, <<>>), cursor |-> <<>>, phase |-> "visit"]

\* Visitor::new
VisitorNew(path, root, annotate_paths, has_log) ==
    [path |-> path, root |-> root, annotate_paths |-> annotate_paths,
     error_log |-> has_log, mod_context |-> <<>>,
     syntax |-> SynFile(<<>>, <<>>), cursor |-> <<>>, phase |-> "visit"]

\* The items of the body the cursor is in, and the item under the cursor.
RECURSIVE LevelItems(_, _)
LevelItems(items, cur) ==
    IF Len(cur) <= 1 THEN items ELSE LevelItems(items[cur[1]].items, Tail(cur))

RECURSIVE ItemAt(_, _)
ItemAt(items, cur) ==
    IF Len(cur) = 1 THEN items[cur[1]] ELSE ItemAt(items[cur[1]].items, Tail(cur))

\* The in-place update of the item under the cursor.
RECURSIVE SetItemAt(_, _, _)
SetItemAt(items, cur, new) ==
    IF Len(cur) = 1 THEN [items EXCEPT ![cur[1]] = new]
    ELSE [items EXCEPT ![cur[1]] =
             [items[cur[1]] EXCEPT !.items = SetItemAt(items[cur[1]].items, Tail(cur), new)]]

advance_staying(cur) == cur

\* The walk of visit_file_mut: on to the next item, into a body.
advance(cur) == [cur EXCEPT ![Len(cur)] = cur[Len(cur)] + 1]

descend_skipping_body(cur) == advance(cur)

descend(cur) == cur \o <<1>>

first_candidate_fallback_first(candidates, fsv) ==
    LET ex == {i \in 1..Len(candidates) : path_exists(fsv, candidates[i])}
    IN IF ex = {} THEN Head(candidates)
       ELSE candidates[CHOOSE i \in ex : \A j \in ex : i <= j]

first_candidate_first_loadable(candidates, fsv) ==
    LET ok == {i \in 1..Len(candidates) : resolve(fsv, candidates[i]).res.ok}
        ex == {i \in 1..Len(candidates) : path_exists(fsv, candidates[i])}
    IN IF ok # {} THEN candidates[CHOOSE i \in ok : \A j \in ok : i <= j]
       ELSE IF ex = {} THEN Last(candidates)
       ELSE candidates[CHOOSE i \in ex : \A j \in ex : i <= j]

\* visit_item_mod_mut: `first_candidate`, the first candidate that exists,
\* else the last one.
first_candidate(candidates, fsv) ==
    LET ex == {i \in 1..Len(candidates) : path_exists(fsv, candidates[i])}
    IN IF ex = {} THEN Last(candidates)
       ELSE candidates[CHOOSE i \in ex : \A j \in ex : i <= j]

log_error_newest_first(log, has_log, e) ==
    IF has_log /\ log.some THEN Some(<<e>> \o log.v) ELSE log

\* The Err arm of visit_item_mod_mut: the error goes to the log, if any.
log_error(log, has_log, e) ==
    IF has_log /\ log.some THEN Some(Append(log.v, e)) ELSE log

Spliced_without_body(item, candidate, file, annotate_paths) ==
    [item EXCEPT
        !.attrs = item.attrs
                  \o (IF annotate_paths THEN <<MarkerAttr(candidate)>> ELSE <<>>)
                  \o file.attrs]

\* The Ok arm of visit_item_mod_mut: the declaration after the splice.
Spliced(item, candidate, file, annotate_paths) ==
    [item EXCEPT
        !.attrs = item.attrs
                  \o (IF annotate_paths THEN <<MarkerAttr(candidate)>> ELSE <<>>)
                  \o file.attrs,
        !.content = TRUE,
        !.items = file.items]

Top == stack[Len(stack)]
Caller == stack[Len(stack) - 1]
Walking == pc = "running" /\ stack # <<>> /\ Top.phase = "walk"
AtEnd == Top.cursor[Len(Top.cursor)] > Len(LevelItems(Top.syntax.items, Top.cursor))
Current == ItemAt(Top.syntax.items, Top.cursor)

Locals == <<fs, builder, src_file, probe>>

(***************************************************************************)
(* InlinerBuilder                                                          *)
(***************************************************************************)

\* InlinerBuilder::root
SetRoot(b) ==
    /\ pc = "idle"
    /\ builder' = [builder EXCEPT !.root = b]
    /\ UNCHANGED <<fs, src_file, pc, stack, error_log, files_seen, resolved,
                   visited, expanded, result, probe>>

\* InlinerBuilder::annotate_paths
SetAnnotatePaths(b) ==
    /\ pc = "idle"
    /\ builder' = [builder EXCEPT !.annotate_paths = b]
    /\ UNCHANGED <<fs, src_file, pc, stack, error_log, files_seen, resolved,
                   visited, expanded, result, probe>>

ParseInternal_untracked(src) ==
    /\ pc = "idle"
    /\ pc' = "running"
    /\ src_file' = src
    /\ error_log' = None
    /\ stack' = <<VisitorNew(src, builder.root, builder.annotate_paths, FALSE)>>
    /\ UNCHANGED <<fs, builder, files_seen, resolved, visited, expanded, result, probe>>

\* parse_internal up to the call of visit: the error log is always attached.
ParseInternal(src) ==
    /\ pc = "idle"
    /\ pc' = "running"
    /\ src_file' = src
    /\ error_log' = Some(<<>>)
    /\ stack' = <<VisitorNew(src, builder.root, builder.annotate_paths, TRUE)>>
    /\ UNCHANGED <<fs, builder, files_seen, resolved, visited, expanded, result, probe>>

(***************************************************************************)
(* Visitor::visit                                                          *)
(***************************************************************************)

\* visit: resolve succeeds and the walk of the file begins.
VisitOk ==
    /\ pc = "running" /\ stack # <<>> /\ Top.phase = "visit"
    /\ LET r == resolve(fs, Top.path)
       IN /\ r.res.ok
          /\ resolved' = Append(resolved, Top.path)
          /\ files_seen' = files_seen \o r.on_load
          /\ stack' = [stack EXCEPT ![Len(stack)] =
                          [Top EXCEPT !.syntax = r.res.file, !.cursor = <<1>>,
                                      !.phase = "walk"]]
    /\ UNCHANGED <<Locals, pc, error_log, visited, expanded, result>>

\* visit of the initial file fails: `?` in parse_internal returns the Err.
VisitErrRoot ==
    /\ pc = "running" /\ Len(stack) = 1 /\ Top.phase = "visit"
    /\ LET r == resolve(fs, Top.path)
       IN /\ ~r.res.ok
          /\ resolved' = Append(resolved, Top.path)
          /\ files_seen' = files_seen \o r.on_load
          /\ result' = EntryErr(r.res.err)
    /\ pc' = "done"
    /\ stack' = <<>>
    /\ error_log' = None
    /\ UNCHANGED <<Locals, visited, expanded>>

VisitErrNested_annotating ==
    /\ pc = "running" /\ Len(stack) > 1 /\ Top.phase = "visit"
    /\ LET r == resolve(fs, Top.path)
           i == ItemAt(Caller.syntax.items, Caller.cursor)
           new == [i EXCEPT !.attrs = i.attrs \o (IF Caller.annotate_paths
                                                  THEN <<MarkerAttr(Top.path)>>
                                                  ELSE <<>>)]
       IN /\ ~r.res.ok
          /\ resolved' = Append(resolved, Top.path)
          /\ files_seen' = files_seen \o r.on_load
          /\ error_log' = log_error(error_log, Caller.error_log,
                                     InlineErrorNew(Caller.path, i, Top.path, r.res.err))
          /\ stack' = [Front(stack) EXCEPT ![Len(stack) - 1] =
                          [Caller EXCEPT
                              !.syntax = [Caller.syntax EXCEPT
                                  !.items = SetItemAt(Caller.syntax.items, Caller.cursor, new)],
                              !.mod_context = pop(Caller.mod_context),
                              !.cursor = advance(Caller.cursor)]]
    /\ UNCHANGED <<Locals, pc, visited, expanded, result>>

\* visit of a chosen candidate fails: the Err arm of visit_item_mod_mut in
\* the calling visitor, then its pop.
VisitErrNested ==
    /\ pc = "running" /\ Len(stack) > 1 /\ Top.phase = "visit"
    /\ LET r == resolve(fs, Top.path)
           i == ItemAt(Caller.syntax.items, Caller.cursor)
       IN /\ ~r.res.ok
          /\ resolved' = Append(resolved, Top.path)
          /\ files_seen' = files_seen \o r.on_load
          /\ error_log' = log_error(error_log, Caller.error_log,
                                     InlineErrorNew(Caller.path, i, Top.path, r.res.err))
          /\ stack' = [Front(stack) EXCEPT ![Len(stack) - 1] =
                          [Caller EXCEPT !.mod_context = pop(Caller.mod_context),
                                         !.cursor = advance(Caller.cursor)]]
    /\ UNCHANGED <<Locals, pc, visited, expanded, result>>

(***************************************************************************)
(* VisitMut for Visitor                                                    *)
(***************************************************************************)

\* visit_item_mut on an item that is not a module.
WalkOther ==
    /\ Walking /\ ~AtEnd /\ Current.kind = "other"
    /\ stack' = [stack EXCEPT ![Len(stack)] = [Top EXCEPT !.cursor = advance(Top.cursor)]]
    /\ UNCHANGED <<Locals, pc, error_log, files_seen, resolved, visited, expanded, result>>

\* visit_item_mod_mut on a module with content: push, then walk its items.
WalkModInline ==
    /\ Walking /\ ~AtEnd /\ Current.kind = "mod" /\ Current.content
    /\ stack' = [stack EXCEPT ![Len(stack)] =
                    [Top EXCEPT !.mod_context = push(Top.mod_context, ModSegmentFrom(Current)),
                                !.cursor = descend(Top.cursor)]]
    /\ UNCHANGED <<Locals, pc, error_log, files_seen, resolved, visited, expanded, result>>

\* visit_item_mod_mut after the items of a module with content: pop.
LeaveInline ==
    /\ Walking /\ AtEnd /\ Len(Top.cursor) > 1
    /\ stack' = [stack EXCEPT ![Len(stack)] =
                    [Top EXCEPT !.mod_context = pop(Top.mod_context),
                                !.cursor = advance(Front(Top.cursor))]]
    /\ UNCHANGED <<Locals, pc, error_log, files_seen, resolved, visited, expanded, result>>

WalkModForward_any_module ==
    /\ Walking /\ ~AtEnd /\ Current.kind = "mod"
    /\ Len(stack) < MaxDepth
    /\ LET ctx == push(Top.mod_context, ModSegmentFrom(Current))
           candidates == relative_to(ctx, Top.path, Top.root)
           chosen == first_candidate(candidates, fs)
       IN /\ stack' = Append([stack EXCEPT ![Len(stack)] = [Top EXCEPT !.mod_context = ctx]],
                             VisitorNew(chosen, FALSE, Top.annotate_paths, Top.error_log))
          /\ visited' = Append(visited,
                 [src_path |-> Top.path, ident |-> Current.ident, span |-> Current.span,
                  attrs |-> Current.attrs, mod_context |-> ctx,
                  candidates |-> candidates, chosen |-> chosen, depth |-> Len(stack)])
    /\ UNCHANGED <<Locals, pc, error_log, files_seen, resolved, expanded, result>>

\* visit_item_mod_mut on a module without content: push, choose a candidate,
\* make the visitor of that candidate.
WalkModForward ==
    /\ Walking /\ ~AtEnd /\ Current.kind = "mod" /\ ~Current.content
    /\ Len(stack) < MaxDepth
    /\ LET ctx == push(Top.mod_context, ModSegmentFrom(Current))
           candidates == relative_to(ctx, Top.path, Top.root)
           chosen == first_candidate(candidates, fs)
       IN /\ stack' = Append([stack EXCEPT ![Len(stack)] = [Top EXCEPT !.mod_context = ctx]],
                             VisitorNew(chosen, FALSE, Top.annotate_paths, Top.error_log))
          /\ visited' = Append(visited,
                 [src_path |-> Top.path, ident |-> Current.ident, span |-> Current.span,
                  attrs |-> Current.attrs, mod_context |-> ctx,
                  candidates |-> candidates, chosen |-> chosen, depth |-> Len(stack)])
    /\ UNCHANGED <<Locals, pc, error_log, files_seen, resolved, expanded, result>>

\* visit_file_mut of the initial file ends: parse_internal returns Ok.
FileDoneRoot ==
    /\ Walking /\ AtEnd /\ Len(Top.cursor) = 1 /\ Len(stack) = 1
    /\ result' = InliningResultNew(Top.syntax,
                                   IF error_log.some THEN error_log.v ELSE <<>>,
                                   builder.annotate_paths)
    /\ pc' = "done"
    /\ stack' = <<>>
    /\ UNCHANGED <<Locals, error_log, files_seen, resolved, visited, expanded>>

\* visit_file_mut of a chosen candidate ends: the Ok arm of visit_item_mod_mut
\* in the calling visitor, then its pop.
FileDoneNested ==
    /\ Walking /\ AtEnd /\ Len(Top.cursor) = 1 /\ Len(stack) > 1
    /\ LET i == ItemAt(Caller.syntax.items, Caller.cursor)
           new == Spliced(i, Top.path, Top.syntax, Caller.annotate_paths)
       IN /\ stack' = [Front(stack) EXCEPT ![Len(stack) - 1] =
                          [Caller EXCEPT
                              !.syntax = [Caller.syntax EXCEPT
                                  !.items = SetItemAt(Caller.syntax.items, Caller.cursor, new)],
                              !.mod_context = pop(Caller.mod_context),
                              !.cursor = advance(Caller.cursor)]]
          /\ expanded' = Append(expanded,
                 [src_path |-> Caller.path, ident |-> i.ident, span |-> i.span,
                  decl_attrs |-> i.attrs, file_attrs |-> Top.syntax.attrs,
                  chosen |-> Top.path, attrs |-> new.attrs, depth |-> Len(stack) - 1])
    /\ UNCHANGED <<Locals, pc, error_log, files_seen, resolved, visited, result>>

(***************************************************************************)
(* The specification of the entry call                                     *)
(***************************************************************************)

Faults == {Absent, Unreadable, FileWith("garbage")}

\* Every store with at most MaxFaults locations that are not as written.
FileSystems ==
    UNION {{[p \in Locations |-> IF p \in S THEN g[p] ELSE FileWith(TextOf(p))] :
               g \in [S -> Faults]} :
           S \in {T \in SUBSET Locations : Cardinality(T) <= MaxFaults}}

SrcFiles == {P_lib, P_first}

NoProbe == [ctx |-> <<>>, base |-> <<>>, root |-> FALSE, out |-> <<>>, applied |-> FALSE]

Init ==
    /\ fs \in FileSystems
    /\ builder = [root |-> TRUE, annotate_paths |-> FALSE]
    /\ src_file = <<>>
    /\ pc = "idle"
    /\ stack = <<>>
    /\ error_log = None
    /\ files_seen = <<>>
    /\ resolved = <<>>
    /\ visited = <<>>
    /\ expanded = <<>>
    /\ result = NoResult
    /\ probe = NoProbe

Next ==
    \/ \E b \in BOOLEAN : SetRoot(b)
    \/ \E b \in BOOLEAN : SetAnnotatePaths(b)
    \/ \E src \in SrcFiles : ParseInternal(src)
    \/ VisitOk
    \/ VisitErrRoot
    \/ VisitErrNested
    \/ WalkOther
    \/ WalkModInline
    \/ LeaveInline
    \/ WalkModForward
    \/ FileDoneRoot
    \/ FileDoneNested

Spec == Init /\ [][Next]_vars

(***************************************************************************)
(* The specification of ModContext::relative_to on its own: a context is   *)
(* built with push and pop, then relative_to is applied to it.             *)
(***************************************************************************)

MaxCtx == 2        \* most segments in the context of the probe

ProbeSegments ==
    {IdentSegment("a"), IdentSegment("b"),
     PathSegment(<<"threads">>), PathSegment(<<"tls">> \o Rs),
     PathSegment(<<"sub", Sep, "x">> \o Rs), PathSegment(<<Sep, "abs">>)}

ProbeBases ==
    {<<Sep, "src", Sep, "lib">> \o Rs,
     <<Sep, "src", Sep, "runner", Sep, "mod">> \o Rs,
     <<Sep, "src", Sep, "runner">> \o Rs,
     <<"src", Sep, "lib">> \o Rs,
     <<"lib">> \o Rs}

\* ModContext::push on the probe
ProbePush(seg) ==
    /\ Len(probe.ctx) < MaxCtx
    /\ probe' = [probe EXCEPT !.ctx = push(probe.ctx, seg), !.out = <<>>,
                              !.applied = FALSE]
    /\ UNCHANGED <<fs, builder, src_file, pc, stack, error_log, files_seen,
                   resolved, visited, expanded, result>>

\* ModContext::pop on the probe
ProbePop ==
    /\ probe.ctx # <<>>
    /\ probe' = [probe EXCEPT !.ctx = pop(probe.ctx), !.out = <<>>,
                              !.applied = FALSE]
    /\ UNCHANGED <<fs, builder, src_file, pc, stack, error_log, files_seen,
                   resolved, visited, expanded, result>>

\* ModContext::relative_to on the probe; the visitor calls it after a push.
ProbeRelativeTo ==
    /\ probe.ctx # <<>>
    /\ ~probe.applied
    /\ probe' = [probe EXCEPT !.out = relative_to(probe.ctx, probe.base, probe.root),
                              !.applied = TRUE]
    /\ UNCHANGED <<fs, builder, src_file, pc, stack, error_log, files_seen,
                   resolved, visited, expanded, result>>

PathInit ==
    /\ fs = [p \in Locations |-> FileWith(TextOf(p))]
    /\ builder = [root |-> TRUE, annotate_paths |-> FALSE]
    /\ src_file = <<>>
    /\ pc = "idle"
    /\ stack = <<>>
    /\ error_log = None
    /\ files_seen = <<>>
    /\ resolved = <<>>
    /\ visited = <<>>
    /\ expanded = <<>>
    /\ result = NoResult
    /\ \E base \in ProbeBases, root \in BOOLEAN :
          probe = [ctx |-> <<>>, base |-> base, root |-> root, out |-> <<>>,
                   applied |-> FALSE]

PathNext ==
    \/ \E seg \in ProbeSegments : ProbePush(seg)
    \/ ProbePop
    \/ ProbeRelativeTo

PathSpec == PathInit /\ [][PathNext]_vars

(***************************************************************************)
(* The specification of a Visitor applied to a tree its caller parsed, as  *)
(* the tests of visitor.rs do: Visitor::new, then visit_file_mut, with or  *)
(* without an error log; the tree itself is not loaded.                    *)
(***************************************************************************)

WalkSrcFiles == {P_lib, P_inlined}

\* Visitor::new(path, true, annotate_paths, error_log, resolver) and the
\* call of visit_file_mut on the parsed text of `src`.
VisitFileMut(src, annotate_paths, has_log) ==
    /\ pc = "idle"
    /\ pc' = "running"
    /\ src_file' = src
    /\ error_log' = IF has_log THEN Some(<<>>) ELSE None
    /\ stack' = <<[VisitorNew(src, TRUE, annotate_paths, has_log) EXCEPT
                      !.syntax = ParsedText(TextOf(src)),
                      !.cursor = <<1>>,
                      !.phase = "walk"]>>
    /\ UNCHANGED <<fs, builder, files_seen, resolved, visited, expanded, result, probe>>

\* visit_file_mut returns to its caller, which holds the tree.
WalkDone ==
    /\ Walking /\ AtEnd /\ Len(Top.cursor) = 1 /\ Len(stack) = 1
    /\ pc' = "walked"
    /\ UNCHANGED <<Locals, stack, error_log, files_seen, resolved, visited, expanded, result>>

WalkNext ==
    \/ \E src \in WalkSrcFiles, a \in BOOLEAN, l \in BOOLEAN : VisitFileMut(src, a, l)
    \/ VisitOk
    \/ VisitErrNested
    \/ WalkOther
    \/ WalkModInline
    \/ LeaveInline
    \/ WalkModForward
    \/ FileDoneNested
    \/ WalkDone

WalkSpec == Init /\ [][WalkNext]_vars

(***************************************************************************)
(* The specification of the entry call on a store that holds a file which  *)
(* declares itself as its submodule: src/cyc/mod.rs with                   *)
(* `#[path = "mod.rs"] mod me;`.                                           *)
(***************************************************************************)

\* The store as written plus src/cyc/mod.rs, as written or faulty.
CycFileSystems ==
    {[p \in Locations \cup {P_cyc} |->
         IF p = P_cyc THEN c ELSE FileWith(TextOf(p))] :
     c \in {FileWith(TextOf(P_cyc))} \cup Faults}

CycSrcFiles == {P_cyc, P_lib}

CycleInit ==
    /\ fs \in CycFileSystems
    /\ builder = [root |-> TRUE, annotate_paths |-> FALSE]
    /\ src_file = <<>>
    /\ pc = "idle"
    /\ stack = <<>>
    /\ error_log = None
    /\ files_seen = <<>>
    /\ resolved = <<>>
    /\ visited = <<>>
    /\ expanded = <<>>
    /\ result = NoResult
    /\ probe = NoProbe

CycleNext ==
    \/ \E b \in BOOLEAN : SetRoot(b)
    \/ \E b \in BOOLEAN : SetAnnotatePaths(b)
    \/ \E src \in CycSrcFiles : ParseInternal(src)
    \/ VisitOk
    \/ VisitErrRoot
    \/ VisitErrNested
    \/ WalkOther
    \/ WalkModInline
    \/ LeaveInline
    \/ WalkModForward
    \/ FileDoneRoot
    \/ FileDoneNested

CycleSpec == CycleInit /\ [][CycleNext]_vars

(***************************************************************************)
(* The specification of the entry call as one sequential computation: the  *)
(* call of parse_internal runs on its caller's thread, each step of the    *)
(* traversal follows the one before it, so a step that can be taken is     *)
(* taken.  The store holds the files as written, src/cyc/mod.rs, and       *)
(* src/dia.rs, two declarations of which choose the same file.             *)
(***************************************************************************)

MaxLiveFaults == 1     \* most faulty locations of the store of this specification

LiveLocations == Locations \cup {P_cyc, P_dia}

LiveFileSystems ==
    UNION {{[p \in LiveLocations |-> IF p \in S THEN g[p] ELSE FileWith(TextOf(p))] :
               g \in [S -> Faults]} :
           S \in {T \in SUBSET LiveLocations : Cardinality(T) <= MaxLiveFaults}}

LiveSrcFiles == {P_lib, P_cyc, P_dia}

LiveInit ==
    /\ fs \in LiveFileSystems
    /\ builder = [root |-> TRUE, annotate_paths |-> FALSE]
    /\ src_file = <<>>
    /\ pc = "idle"
    /\ stack = <<>>
    /\ error_log = None
    /\ files_seen = <<>>
    /\ resolved = <<>>
    /\ visited = <<>>
    /\ expanded = <<>>
    /\ result = NoResult
    /\ probe = NoProbe

\* The steps of Visitor::visit and of the walk under it.
Traverse ==
    \/ VisitOk
    \/ VisitErrRoot
    \/ VisitErrNested
    \/ WalkOther
    \/ WalkModInline
    \/ LeaveInline
    \/ WalkModForward
    \/ FileDoneRoot
    \/ FileDoneNested

LiveNext ==
    \/ \E b \in BOOLEAN : SetRoot(b)
    \/ \E src \in LiveSrcFiles : ParseInternal(src)
    \/ Traverse

\* The steps that load a location, and the state in which one can be taken:
\* a visitor that has not yet resolved its location resolves it, Ok or Err.
Load == VisitOk \/ VisitErrRoot \/ VisitErrNested
CanLoad == pc = "running" /\ stack # <<>> /\ Top.phase = "visit"

\* The state in which the visitor of a bodiless declaration can be made.
CanForward ==
    /\ Walking /\ ~AtEnd /\ Current.kind = "mod" /\ ~Current.content
    /\ Len(stack) < MaxDepth

\* The steps that stay in the tree of the visitor on top.
WalkOn == WalkOther \/ WalkModInline \/ LeaveInline \/ FileDoneRoot \/ FileDoneNested

\* Weak fairness of every step of the traversal; for Load and WalkModForward
\* it is written out, with CanLoad and CanForward for their enabledness.
Fairness ==
    /\ WF_vars(WalkOn)
    /\ ([]<>(~CanLoad) \/ []<><<Load>>_vars)
    /\ ([]<>(~CanForward) \/ []<><<WalkModForward>>_vars)

LiveSpec == LiveInit /\ [][LiveNext]_vars /\ Fairness

(***************************************************************************)
(* Properties                                                              *)
(***************************************************************************)

Exists(p) == Lookup(fs, p).state # "absent"
Fails(p) == ~(Lookup(fs, p).state = "file" /\ Parses(Lookup(fs, p).text))

ModRs == <<"mod">> \o Rs

\* The directory the claims name: the parent of the base for a root or a
\* mod.rs base, parent/stem otherwise.
ClaimedDir(base, root) ==
    IF root \/ (Len(base) >= 3 /\ SubSeq(base, Len(base) - 2, Len(base)) = ModRs
                /\ (Len(base) = 3 \/ base[Len(base) - 3] = Sep))
    THEN parent(base).v
    ELSE join(parent(base).v, file_stem(base).v)

\* C1: every bodiless declaration gets exactly one candidate of the list of
\* relative_to, which is never empty: the first one that exists, or the last
\* one when none exists; a missing module m of a root file gets dir/m/mod.rs.
C1_FirstExistingElseLast ==
    \A k \in 1..Len(visited) :
        LET v == visited[k]
            n == Len(v.candidates)
        IN /\ n >= 1
           /\ \E i \in 1..n :
                 /\ v.chosen = v.candidates[i]
                 /\ \/ Exists(v.candidates[i]) /\ \A j \in 1..(i - 1) : ~Exists(v.candidates[j])
                    \/ i = n /\ \A j \in 1..n : ~Exists(v.candidates[j])
           /\ (/\ v.src_path = src_file /\ builder.root
               /\ v.mod_context = <<IdentSegment(v.ident)>>
               /\ \A j \in 1..n : ~Exists(v.candidates[j]))
              => v.chosen = pop_path(src_file) \o <<Sep, v.ident, Sep>> \o ModRs

\* C1 witness: a declaration of the root file none of whose two candidates
\* exists has been given its mod.rs candidate.
C1_Witness ==
    \E k \in 1..Len(visited) :
        /\ visited[k].src_path = src_file
        /\ Len(visited[k].candidates) = 2
        /\ \A j \in 1..2 : ~Exists(visited[k].candidates[j])
        /\ visited[k].chosen = visited[k].candidates[2]

Applied == probe.applied

\* The segments of the probe joined as plain text under the claimed directory.
ProbeDir == ClaimedDir(probe.base, probe.root)
ProbeJoined == join(ProbeDir, PushAll(<<>>, probe.ctx))

\* C2: a context whose last segment is Named yields exactly two candidates:
\* dir/joined.rs first, dir/joined/mod.rs second.
C2_NamedTwoCandidatesFileFirst ==
    (Applied /\ is_ident(Last(probe.ctx)))
        => /\ Len(probe.out) = 2
           /\ probe.out[1] = ProbeJoined \o Rs
           /\ probe.out[2] = ProbeJoined \o <<Sep>> \o ModRs

\* C2 witness: relative_to was applied to a context with an explicit path
\* before a Named last segment.
C2_Witness ==
    /\ Applied /\ Len(probe.ctx) = 2
    /\ ~is_ident(probe.ctx[1]) /\ is_ident(probe.ctx[2])
    /\ Len(probe.out) = 2

\* C3: the candidates lie under the parent of the base when it is the root
\* or is named mod.rs, and under parent/stem otherwise; the four cases the
\* claim names, for segments [a, b], are as it says.
C3_DirectoryOfBase ==
    Applied =>
        /\ \A i \in 1..Len(probe.out) :
              probe.out[i] = join(ProbeDir, to_path_bufs(probe.ctx)[i])
        /\ probe.ctx = <<IdentSegment("a"), IdentSegment("b")>> =>
              LET first == probe.out[1]
              IN /\ (probe.base = <<Sep, "src", Sep, "lib">> \o Rs /\ probe.root)
                        => first = <<Sep, "src", Sep, "a", Sep, "b">> \o Rs
                 /\ (probe.base = <<Sep, "src", Sep, "runner", Sep, "mod">> \o Rs /\ ~probe.root)
                        => first = <<Sep, "src", Sep, "runner", Sep, "a", Sep, "b">> \o Rs
                 /\ (probe.base = <<Sep, "src", Sep, "runner">> \o Rs /\ ~probe.root)
                        => first = <<Sep, "src", Sep, "runner", Sep, "a", Sep, "b">> \o Rs
                 /\ (probe.base = <<Sep, "src", Sep, "runner">> \o Rs /\ probe.root)
                        => first = <<Sep, "src", Sep, "a", Sep, "b">> \o Rs

\* C3 witness: relative_to was applied to [a, b] for a base that is neither
\* the root nor a mod.rs.
C3_Witness ==
    /\ Applied
    /\ probe.ctx = <<IdentSegment("a"), IdentSegment("b")>>
    /\ probe.base = <<Sep, "src", Sep, "runner">> \o Rs /\ ~probe.root
    /\ probe.out[2] = <<Sep, "src", Sep, "runner", Sep, "a", Sep, "b", Sep>> \o ModRs

\* dir joined with each segment in turn.
RECURSIVE JoinEach(_, _)
JoinEach(dir, ctx) ==
    IF ctx = <<>> THEN dir ELSE JoinEach(join(dir, SegmentPath(Head(ctx))), Tail(ctx))

EndsWith(p, tail) ==
    Len(p) >= Len(tail) /\ SubSeq(p, Len(p) - Len(tail) + 1, Len(p)) = tail

\* C4: a context whose last segment is an ExplicitPath yields exactly one
\* candidate: dir joined with every segment in order, ending in the literal
\* path as written.
C4_ExplicitPathOneCandidate ==
    (Applied /\ ~is_ident(Last(probe.ctx)))
        => /\ Len(probe.out) = 1
           /\ probe.out[1] = JoinEach(ProbeDir, probe.ctx)
           /\ EndsWith(probe.out[1], Last(probe.ctx).value)

\* C4 witness: relative_to was applied to [a, "tls.rs"] and gave one
\* candidate that ends in a/tls.rs.
C4_Witness ==
    /\ Applied
    /\ probe.ctx = <<IdentSegment("a"), PathSegment(<<"tls">> \o Rs)>>
    /\ Len(probe.out) = 1
    /\ EndsWith(probe.out[1], <<"a", Sep, "tls">> \o Rs)

Done == pc = "done"
DoneOk == pc = "done" /\ result.ok

\* The bodiless declarations met whose chosen candidate cannot be loaded.
FailedVisits == SelectSeq(visited, LAMBDA v : Fails(v.chosen))

\* The bodiless declarations of a list of items, in document order, bodies
\* of inline modules included.
RECURSIVE DeclsFrom(_, _, _)
DeclsFrom(items, i, ctx) ==
    IF i > Len(items) THEN <<>>
    ELSE LET it == items[i]
         IN (CASE it.kind = "mod" /\ it.content ->
                    DeclsFrom(it.items, 1, Append(ctx, ModSegmentFrom(it)))
               [] it.kind = "mod" /\ ~it.content ->
                    <<[ident |-> it.ident, span |-> it.span,
                       ctx |-> Append(ctx, ModSegmentFrom(it))]>>
               [] OTHER -> <<>>)
            \o DeclsFrom(items, i + 1, ctx)

DeclsOfText(text) == DeclsFrom(ParsedText(text).items, 1, <<>>)

\* The module declarations of a tree that have no content, in document order.
RECURSIVE BodilessFrom(_, _)
BodilessFrom(items, i) ==
    IF i > Len(items) THEN <<>>
    ELSE LET it == items[i]
         IN (CASE it.kind = "mod" /\ it.content -> BodilessFrom(it.items, 1)
               [] it.kind = "mod" /\ ~it.content -> <<it.ident>>
               [] OTHER -> <<>>)
            \o BodilessFrom(items, i + 1)

Count(seq, x) == Cardinality({k \in 1..Len(seq) : seq[k] = x})

\* C5: a failed declaration does not stop the walk: at the end every
\* bodiless declaration of every loaded file has been visited, in document
\* order, those that resolve are expanded, and the log holds one record per
\* failed declaration, in their order, under their names.
C5_FailureDoesNotStopTraversal ==
    DoneOk =>
        LET failed == FailedVisits
            names == [k \in 1..Len(failed) |-> failed[k].ident]
        IN /\ \A k \in 1..Len(resolved) :
                 LET p == resolved[k]
                     mine == SelectSeq(visited, LAMBDA v : v.src_path = p)
                     decls == DeclsOfText(Lookup(fs, p).text)
                 IN (~Fails(p) /\ Count(resolved, p) = 1) =>
                       [j \in 1..Len(mine) |-> [ident |-> mine[j].ident, span |-> mine[j].span]]
                       = [j \in 1..Len(decls) |-> [ident |-> decls[j].ident, span |-> decls[j].span]]
           /\ Len(expanded) = Len(visited) - Len(failed)
           /\ \A k \in 1..Len(visited) :
                 ~Fails(visited[k].chosen) =>
                     \E j \in 1..Len(expanded) :
                         /\ expanded[j].src_path = visited[k].src_path
                         /\ expanded[j].span = visited[k].span
                         /\ expanded[j].chosen = visited[k].chosen
           /\ error_log.some
           /\ [k \in 1..Len(error_log.v) |-> error_log.v[k].module_name] = names
           /\ BodilessFrom(result.output.items, 1) = names

\* C5 witness: the call has ended with two records in the log, and a
\* declaration that follows a failed one in the same file was expanded.
C5_Witness ==
    /\ DoneOk
    /\ Len(error_log.v) = 2
    /\ \E k, l \in 1..Len(visited) :
          /\ k < l
          /\ visited[k].src_path = visited[l].src_path
          /\ Fails(visited[k].chosen)
          /\ \E j \in 1..Len(expanded) :
                expanded[j].src_path = visited[l].src_path /\ expanded[j].span = visited[l].span

\* C6: the entry call returns Err exactly when the initial location cannot
\* be loaded; then nothing was visited and there is no tree and no list.
C6_ErrIffInitialFails ==
    Done =>
        /\ ~result.ok <=> Fails(src_file)
        /\ ~result.ok =>
              /\ visited = <<>> /\ expanded = <<>>
              /\ resolved = <<src_file>>
              /\ result.output = SynFile(<<>>, <<>>) /\ result.errors = <<>>
              /\ result.err.kind \in {"Io", "Parse"}
              /\ result.err.kind = "Io" <=> Lookup(fs, src_file).state # "file"

\* C6 witness: the entry call has returned Err.
C6_Witness == Done /\ ~result.ok /\ Fails(src_file)

\* The Error a location gives when it is loaded.
KindOf(p) ==
    CASE Lookup(fs, p).state = "absent" -> IoError("NotFound")
      [] Lookup(fs, p).state = "unreadable" -> IoError("PermissionDenied")
      [] OTHER -> ParseError

\* C7: the k-th record of the log is the k-th failed declaration: src_path
\* the file of the visitor that met it, module_name its identifier, path the
\* candidate chosen, kind Io (NotFound when absent) or Parse; the list the
\* call returns is this log.
C7_FailureRecordFields ==
    LET failed == FailedVisits
    IN /\ error_log.some =>
             /\ Len(error_log.v) <= Len(failed)
             /\ \A k \in 1..Len(error_log.v) :
                   LET v == failed[k]
                   IN error_log.v[k] = [src_path |-> v.src_path,
                                        module_name |-> v.ident,
                                        src_span |-> v.span,
                                        path |-> v.chosen,
                                        kind |-> KindOf(v.chosen)]
       /\ DoneOk => /\ result.errors = error_log.v
                    /\ Len(result.errors) = Len(failed)

\* C7 witness: the returned list holds the record of a declaration that
\* failed in a file other than the initial one.
C7_Witness ==
    /\ DoneOk
    /\ \E k \in 1..Len(result.errors) :
          /\ result.errors[k].src_path # src_file
          /\ result.errors[k].kind = ParseError

\* The loads of a traversal from a location, in the order of the source
\* text: the location, then for each bodiless declaration in document order
\* the loads of its chosen candidate.
RECURSIVE LoadOrder(_, _, _)
RECURSIVE LoadOrderOf(_, _, _, _, _)
LoadOrder(p, root, depth) ==
    <<p>> \o (IF Fails(p) \/ depth >= MaxDepth THEN <<>>
              ELSE LoadOrderOf(DeclsOfText(Lookup(fs, p).text), 1, p, root, depth))
LoadOrderOf(decls, i, p, root, depth) ==
    IF i > Len(decls) THEN <<>>
    ELSE LoadOrder(first_candidate(relative_to(decls[i].ctx, p, root), fs), FALSE, depth + 1)
         \o LoadOrderOf(decls, i + 1, p, root, depth)

Readable(p) == Lookup(fs, p).state = "file"

\* C8: the loads happen in document order, depth first: the initial file,
\* then each declaration's load and all loads below it before the next
\* sibling's; on_load sees its locations in that order.
C8_LoadsInDocumentOrder ==
    /\ Done => resolved = LoadOrder(src_file, builder.root, 1)
    /\ [k \in 1..Len(files_seen) |-> files_seen[k].path] = SelectSeq(resolved, Readable)

\* C8 witness: the call has ended after a load two files below the initial
\* one was followed by the load of a later sibling of the initial file.
C8_Witness ==
    /\ DoneOk
    /\ \E k \in 1..Len(visited) :
          /\ visited[k].depth >= 3
          /\ \E l \in (k + 1)..Len(visited) : visited[l].depth = 1
    /\ Len(files_seen) >= 5

\* C9 as claimed: on_load is invoked once for every call of resolve, also
\* when the location cannot be read.
C9_OnLoadOncePerAttempt ==
    /\ Len(files_seen) = Len(resolved)
    /\ \A k \in 1..Len(files_seen) : files_seen[k].path = resolved[k]

\* C9 as amended: on_load is invoked once, with the location and the raw
\* contents, for every call of resolve whose location was read, whether it
\* parses or not, and not at all for a location that cannot be read.
C9_OnLoadOncePerFileRead ==
    LET reads == SelectSeq(resolved, Readable)
    IN files_seen = [k \in 1..Len(reads) |->
                        [path |-> reads[k], contents |-> Lookup(fs, reads[k]).text]]

\* C9 witness: a location that does not parse reached on_load and a location
\* that cannot be read did not.
C9_Witness ==
    /\ \E k \in 1..Len(files_seen) : files_seen[k].contents = "garbage"
    /\ \E k \in 1..Len(resolved) : ~Readable(resolved[k])
    /\ Len(files_seen) < Len(resolved)

\* C10: with annotate_paths, find_mod_path on the attributes of
\* every expanded declaration gives the bytes of the candidate loaded for it.
C10_MarkerRoundTrip ==
    builder.annotate_paths =>
        \A k \in 1..Len(expanded) :
            /\ find_mod_path(expanded[k].attrs).some
            /\ find_mod_path(expanded[k].attrs).path = to_bytes(expanded[k].chosen)

\* The attribute list the claim gives an expanded declaration: those of the
\* declaration site, the marker when paths are annotated, those of the file.
ClaimedAttrs(e) ==
    e.decl_attrs
    \o (IF builder.annotate_paths THEN <<MarkerAttr(e.chosen)>> ELSE <<>>)
    \o e.file_attrs

\* The attributes of an expanded declaration are in the claimed order, those
\* of the declaration site being the ones it had when it was met and those of
\* the file the file-level ones of the candidate loaded.
AttrsInClaimedOrder ==
    /\ \A k \in 1..Len(expanded) :
          LET e == expanded[k]
          IN /\ e.attrs = ClaimedAttrs(e)
             /\ e.file_attrs = ParsedText(Lookup(fs, e.chosen).text).attrs
             /\ \E j \in 1..Len(visited) :
                   /\ visited[j].src_path = e.src_path /\ visited[j].span = e.span
                   /\ visited[j].attrs = e.decl_attrs
    /\ (DoneOk /\ src_file = P_lib) =>
          LET out == result.output.items
              mark(p) == IF builder.annotate_paths THEN <<MarkerAttr(p)>> ELSE <<>>
          IN /\ out[1].content =>
                   \E p \in {P_first, P_first_mod} :
                       out[1].attrs = <<WordAttr("outer_attr")>> \o mark(p)
                                      \o ParsedText(TextOf(p)).attrs
             /\ out[4].content =>
                   out[4].attrs = <<WordAttr("cfg"), PathAttr(<<"al", "\\", "t">> \o Rs)>>
                                  \o mark(P_alt) \o <<InnerWordAttr("doc")>>

\* C11: an expanded declaration carries its declaration-site attributes, then
\* the marker when paths are annotated, then the file-level attributes of the
\* loaded file, each in their order; so with annotated paths find_mod_path
\* gives the declaration-site attributes as outer_attributes and the file's
\* as inner_attributes.
C11_AttributesAroundMarker ==
    /\ AttrsInClaimedOrder
    /\ builder.annotate_paths =>
          \A k \in 1..Len(expanded) :
              LET found == find_mod_path(expanded[k].attrs)
              IN /\ found.some
                 /\ found.outer_attributes = expanded[k].decl_attrs
                 /\ found.inner_attributes = expanded[k].file_attrs

Walked == pc = "walked"

\* The tree given to visit_file_mut, and the text of a file the walk met.
WalkedTree == ParsedText(TextOf(src_file))
WalkedText(p) == IF p = src_file THEN TextOf(p) ELSE Lookup(fs, p).text

\* The modules with a body of `orig` are, in `out`, where they were, with
\* the attributes they had, and so are the items that are not modules.
RECURSIVE InlineKept(_, _)
InlineKept(orig, out) ==
    /\ Len(out) = Len(orig)
    /\ \A i \in 1..Len(orig) :
          CASE orig[i].kind = "mod" /\ orig[i].content ->
                  /\ out[i].kind = "mod" /\ out[i].content
                  /\ out[i].ident = orig[i].ident
                  /\ out[i].attrs = orig[i].attrs
                  /\ InlineKept(orig[i].items, out[i].items)
            [] orig[i].kind = "mod" /\ ~orig[i].content -> out[i].ident = orig[i].ident
            [] OTHER -> out[i] = orig[i]

\* C12: a module with a body never reaches the resolver: every declaration
\* for which candidates were computed is a bodiless one of its file, every
\* load is the load of such a declaration's candidate, and the attributes of
\* the modules with a body are unchanged; the walk of a tree all of whose
\* modules have a body loads nothing and leaves the tree as it was.
C12_InlineBodyNeverResolved ==
    /\ \A k \in 1..Len(visited) :
          LET v == visited[k]
              decls == DeclsOfText(WalkedText(v.src_path))
          IN \E j \in 1..Len(decls) :
                decls[j].ident = v.ident /\ decls[j].span = v.span
    /\ Len(resolved) <= Len(visited)
    /\ \A k \in 1..Len(resolved) : resolved[k] = visited[k].chosen
    /\ stack # <<>> => InlineKept(WalkedTree.items, stack[1].syntax.items)
    /\ (stack # <<>> /\ BodilessFrom(WalkedTree.items, 1) = <<>>) =>
          /\ resolved = <<>> /\ files_seen = <<>> /\ visited = <<>>
          /\ Len(stack) = 1
          /\ stack[1].syntax = WalkedTree

\* C12 witness: the walk of a tree all of whose modules have a body, one of
\* them with a `path` attribute, has ended.
C12_Witness ==
    /\ Walked
    /\ src_file = P_inlined
    /\ BodilessFrom(WalkedTree.items, 1) = <<>>
    /\ resolved = <<>>

\* The records of the list for one declaration of one file.
RecordsOf(errors, v) ==
    {k \in 1..Len(errors) :
        /\ errors[k].src_path = v.src_path
        /\ errors[k].module_name = v.ident
        /\ errors[k].src_span = v.span}

WasExpanded(v) ==
    \E j \in 1..Len(expanded) :
        expanded[j].src_path = v.src_path /\ expanded[j].span = v.span

\* C13: the list an entry call returns has as many records as the output
\* tree has module declarations without a body: one record for each
\* declaration visited and not expanded, none for an expanded one; so
\* has_errors is false exactly when every module of the output has a body.
C13_OneRecordPerUnexpanded ==
    DoneOk =>
        LET errors == result.errors
            bodiless == BodilessFrom(result.output.items, 1)
        IN /\ Len(errors) = Len(bodiless)
           /\ \A k \in 1..Len(visited) :
                 Cardinality(RecordsOf(errors, visited[k]))
                     = IF WasExpanded(visited[k]) THEN 0 ELSE 1
           /\ \A k \in 1..Len(errors) :
                 \E j \in 1..Len(visited) : k \in RecordsOf(errors, visited[j])
           /\ ~has_errors(result) <=> bodiless = <<>>

\* C13 witness: a call has ended with two declarations expanded and two
\* left without a body.
C13_Witness ==
    /\ DoneOk
    /\ Len(expanded) >= 2
    /\ Len(result.errors) = 2
    /\ Len(BodilessFrom(result.output.items, 1)) = 2

\* InlinerBuilder::default()
DefaultBuilder == [root |-> TRUE, annotate_paths |-> FALSE]

\* C14 as claimed: an entry call made with default options collects no
\* failure records: the list it returns is empty.
C14_DefaultTracksNothing ==
    (DoneOk /\ builder = DefaultBuilder) => result.errors = <<>>

\* C14 as amended: error tracking is always on: every visitor of an entry
\* call has the error log, whatever the options, and the list returned holds
\* one record for each declaration whose candidate could not be loaded.
C14_ErrorsAlwaysTracked ==
    /\ pc = "running" =>
          /\ error_log.some
          /\ \A k \in 1..Len(stack) : stack[k].error_log
    /\ DoneOk =>
          /\ result.errors = error_log.v
          /\ Len(result.errors) = Len(FailedVisits)
          /\ has_errors(result) <=> FailedVisits # <<>>

\* C14 witness: an entry call made with default options has returned a list
\* with a record in it.
C14_Witness ==
    /\ DoneOk
    /\ builder = DefaultBuilder
    /\ result.errors # <<>>
    /\ BodilessFrom(result.output.items, 1) # <<>>

\* The segments of the modules a visitor is inside of: those of the modules
\* with a body its cursor has entered, outermost first, and, when it waits
\* for the visitor of a bodiless declaration, the segment of that declaration.
OpenSegments(f, waiting) ==
    LET c == f.cursor
        entered == [j \in 1..(Len(c) - 1) |->
                       ModSegmentFrom(ItemAt(f.syntax.items, SubSeq(c, 1, j)))]
    IN IF waiting THEN Append(entered, ModSegmentFrom(ItemAt(f.syntax.items, c)))
       ELSE entered

\* C15: pushes and pops balance on the three paths through a visit: the
\* context of every visitor is the segments of the modules open in its file,
\* outermost first; relative_to gets a context that ends in the segment of
\* the declaration being resolved; the context is empty before the walk of a
\* file and when it ends.
C15_ContextMirrorsOpenModules ==
    /\ \A k \in 1..Len(stack) :
          LET f == stack[k]
          IN /\ f.phase = "visit" => f.mod_context = <<>>
             /\ f.phase = "walk" =>
                   /\ f.mod_context = OpenSegments(f, k < Len(stack))
                   /\ (k = Len(stack) /\ Len(f.cursor) = 1) => f.mod_context = <<>>
    /\ \A k \in 1..Len(visited) :
          LET v == visited[k]
          IN /\ v.mod_context # <<>>
             /\ Last(v.mod_context) = ModSegmentFrom([ident |-> v.ident, attrs |-> v.attrs])

\* C15 witness: after a failed and an expanded declaration of the initial
\* file, a visitor waits inside a module with a body for the visitor of a
\* declaration, with both segments in its context.
C15_Witness ==
    /\ Len(stack) >= 2
    /\ Len(error_log.v) >= 1 /\ Len(expanded) >= 1
    /\ \E k \in 1..(Len(stack) - 1) :
          /\ Len(stack[k].mod_context) = 2
          /\ stack[k].mod_context = OpenSegments(stack[k], TRUE)
    /\ Top.phase = "walk"

\* The module declarations of a tree that have no content, in document
\* order, as they stand in the tree.
RECURSIVE BodilessItems(_, _)
BodilessItems(items, i) ==
    IF i > Len(items) THEN <<>>
    ELSE LET it == items[i]
         IN (CASE it.kind = "mod" /\ it.content -> BodilessItems(it.items, 1)
               [] it.kind = "mod" /\ ~it.content -> <<it>>
               [] OTHER -> <<>>)
            \o BodilessItems(items, i + 1)

\* C16: a declaration whose chosen candidate cannot be loaded is left as it
\* was, with annotated paths too and with or without an error log: while it
\* has no content a declaration of the tree given is equal to what it was,
\* and at the end of the walk the declarations without content are the
\* failed ones with the attributes they had when met; without a log nothing
\* records the failure, with one each failure has its record.
C16_FailedDeclarationUntouched ==
    LET failed == FailedVisits
    IN /\ stack # <<>> =>
             \A i \in 1..Len(WalkedTree.items) :
                 LET was == WalkedTree.items[i]
                     now == stack[1].syntax.items[i]
                 IN (was.kind = "mod" /\ ~was.content /\ ~now.content) => now = was
       /\ Walked =>
             BodilessItems(stack[1].syntax.items, 1)
                 = [k \in 1..Len(failed) |->
                       ModDecl(failed[k].ident, failed[k].attrs, failed[k].span)]
       /\ ~error_log.some => error_log = None /\ result = NoResult
       /\ (Walked /\ error_log.some) => Len(error_log.v) = Len(failed)

\* C16 witness: a walk with annotated paths and without an error log has
\* ended with a declaration expanded and two left without content.
C16_Witness ==
    /\ Walked
    /\ ~error_log.some
    /\ stack[1].annotate_paths
    /\ Len(FailedVisits) = 2
    /\ expanded # <<>>

\* The context the inline nesting of its own file gives a declaration met.
NestingOf(v) ==
    LET decls == DeclsOfText(Lookup(fs, v.src_path).text)
        hits == {j \in 1..Len(decls) : decls[j].span = v.span}
    IN decls[CHOOSE j \in hits : TRUE].ctx

\* C17: the visitor made for a loaded file has an empty context, root =
\* false and the annotate flag and error log of the one that made it; the
\* candidates of a declaration come from the location of its own file and
\* the modules with a body around it in that file alone: `fourth` inside
\* `third` in src/first/second.rs gets src/first/second/third/fourth.rs.
C17_FreshVisitorPerFile ==
    /\ \A k \in 2..Len(stack) :
          /\ ~stack[k].root
          /\ stack[k].annotate_paths = stack[k - 1].annotate_paths
          /\ stack[k].error_log = stack[k - 1].error_log
          /\ stack[k].phase = "visit" => stack[k].mod_context = <<>>
    /\ \A k \in 1..Len(stack) :
          /\ stack[k].annotate_paths = builder.annotate_paths
          /\ stack[k].error_log = error_log.some
    /\ \A k \in 1..Len(visited) :
          LET v == visited[k]
              nesting == NestingOf(v)
          IN /\ v.mod_context = nesting
             /\ v.candidates = relative_to(nesting, v.src_path,
                                           v.depth = 1 /\ builder.root)
             /\ (v.src_path = P_second /\ v.ident = "fourth") =>
                   /\ v.depth > 1
                   /\ v.mod_context = <<IdentSegment("third"), IdentSegment("fourth")>>
                   /\ v.candidates = <<P_fourth,
                                       <<"src", Sep, "first", Sep, "second", Sep, "third",
                                         Sep, "fourth", Sep>> \o ModRs>>

\* C17 witness: the file chosen for `fourth`, reached through `first` and
\* `second`, is being walked by the fourth visitor of the chain.
C17_Witness ==
    /\ Len(stack) = 4
    /\ Top.path = P_fourth /\ Top.phase = "walk"
    /\ stack[3].path = P_second /\ ~stack[3].root
    /\ stack[3].mod_context = <<IdentSegment("third"), IdentSegment("fourth")>>

\* The identifiers of a list of items, in order.
Idents(items) == [i \in 1..Len(items) |-> items[i].ident]

IsPrefix(s, t) == Len(s) <= Len(t) /\ SubSeq(t, 1, Len(s)) = s

\* C18: each declaration is resolved from its own `path` attribute, or its
\* own identifier when it has none, whatever its `cfg` attribute and its
\* siblings: of the two declarations named `first` of src/lib.rs the plain
\* one gets first.rs and first/mod.rs as candidates and the one with
\* `path` gets that path alone; each is expanded exactly when its own
\* candidate loads, with the items of that candidate, and keeps the
\* attributes of its declaration site in front.
C18_SiblingsResolvedIndependently ==
    /\ \A k \in 1..Len(visited) :
          LET v == visited[k]
          IN (v.src_path = P_lib /\ v.depth = 1 /\ v.ident = "first" /\ builder.root) =>
                /\ v.span = 1 => /\ v.candidates = <<P_first, P_first_mod>>
                                 /\ v.attrs = <<WordAttr("outer_attr")>>
                /\ v.span = 6 => /\ v.candidates = <<P_alt>>
                                 /\ v.chosen = P_alt
                                 /\ v.attrs[1] = WordAttr("cfg")
    /\ (DoneOk /\ src_file = P_lib /\ builder.root) =>
          LET out == result.output.items
              named == IF Exists(P_first) THEN P_first ELSE P_first_mod
              was == ParsedText("lib").items
          IN /\ Len(SelectSeq(visited, LAMBDA v : v.src_path = P_lib /\ v.ident = "first")) = 2
             /\ out[1].ident = "first" /\ out[4].ident = "first"
             /\ out[1].content <=> ~Fails(named)
             /\ out[4].content <=> ~Fails(P_alt)
             /\ out[1].content =>
                   Idents(out[1].items) = Idents(ParsedText(Lookup(fs, named).text).items)
             /\ out[4].content => out[4].items = ParsedText("alt").items
             /\ IsPrefix(was[1].attrs, out[1].attrs)
             /\ IsPrefix(was[4].attrs, out[4].attrs)

\* C18 witness: a call on src/lib.rs has ended with both declarations named
\* `first` expanded, with different items.
C18_Witness ==
    /\ DoneOk /\ src_file = P_lib /\ builder.root
    /\ result.output.items[1].content /\ result.output.items[4].content
    /\ Idents(result.output.items[1].items) # Idents(result.output.items[4].items)
    /\ Idents(result.output.items[4].items) = <<"M2">>

\* The visitors of the stack that have loaded src/cyc/mod.rs.
CycVisitors == {k \in 1..Len(stack) : stack[k].path = P_cyc /\ stack[k].phase = "walk"}

\* C19: nothing detects a file that declares itself as its submodule: in an
\* entry call on src/cyc/mod.rs every visitor of that file chooses the file
\* again for `me`, loads it again and walks it, so no visitor of the chain
\* ever returns: nothing is expanded and the call never ends (the model
\* stops the chain at MaxDepth visitors, the code at the end of its stack).
C19_SelfDeclarationNeverCompletes ==
    (src_file = P_cyc /\ ~Fails(P_cyc)) =>
        /\ pc = "running"
        /\ result = NoResult
        /\ expanded = <<>>
        /\ Count(resolved, P_cyc) = Cardinality(CycVisitors)
        /\ \A k \in 1..Len(stack) :
              \/ stack[k].path = P_cyc
              \/ k = Len(stack) /\ stack[k].phase = "visit" /\ Fails(stack[k].path)
        /\ \A k \in 1..(Len(stack) - 1) :
              LET waits == ItemAt(stack[k].syntax.items, stack[k].cursor)
              IN IF stack[k + 1].path = P_cyc THEN waits.ident = "me"
                 ELSE waits.ident = "gone"
        /\ \A k \in 1..Len(visited) :
              visited[k].ident = "me" =>
                  /\ visited[k].src_path = P_cyc
                  /\ visited[k].candidates = <<P_cyc>>
                  /\ visited[k].chosen = visited[k].src_path

\* C19 witness: the chain has reached MaxDepth visitors, all of them on
\* src/cyc/mod.rs, which was loaded once for each.
C19_Witness ==
    /\ src_file = P_cyc
    /\ Len(stack) = MaxDepth
    /\ \A k \in 1..Len(stack) : stack[k].path = P_cyc /\ stack[k].phase = "walk"
    /\ Count(resolved, P_cyc) = MaxDepth
    /\ pc = "running"

\* C20: resolve is called once for each bodiless declaration met, on its
\* chosen candidate, right after the choice, and on nothing else but the
\* initial file; when first.rs exists and cannot be loaded the declaration
\* `first` fails with first.rs in its record and first/mod.rs, though it
\* would load, is never tried.
C20_OneLoadPerDeclaration ==
    /\ Len(resolved) = Len(visited)
                       + (IF pc = "idle" \/ (stack # <<>> /\ Top.phase = "visit")
                          THEN 0 ELSE 1)
    /\ \A k \in 2..Len(resolved) : resolved[k] = visited[k - 1].chosen
    /\ (stack # <<>> /\ Top.phase = "visit" /\ Len(stack) > 1) =>
          Top.path = Last(visited).chosen
    /\ (DoneOk /\ src_file = P_lib /\ builder.root
        /\ Exists(P_first) /\ Fails(P_first)) =>
          /\ Count(resolved, P_first) = 1
          /\ Count(resolved, P_first_mod) = 0
          /\ ~result.output.items[1].content
          /\ result.errors # <<>>
          /\ result.errors[1].module_name = "first"
          /\ result.errors[1].path = P_first

\* C20 witness: a call on src/lib.rs has ended with `first` failed on a
\* first.rs that exists while first/mod.rs is there and would load.
C20_Witness ==
    /\ DoneOk /\ src_file = P_lib /\ builder.root
    /\ Exists(P_first) /\ Fails(P_first)
    /\ ~Fails(P_first_mod)
    /\ result.errors[1].path = P_first
    /\ ~result.output.items[1].content

\* A location is being visited by two visitors of the chain at once.
Revisit ==
    \E i, j \in 1..Len(stack) : i < j /\ stack[i].path = stack[j].path

RECURSIVE Repeat(_, _)
Repeat(seq, n) == IF n = 0 THEN <<>> ELSE seq \o Repeat(seq, n - 1)

\* The declarations met in the copies of a location that were walked are
\* the bodiless declarations of its text, in order, once for each copy.
VisitedOnce(p) ==
    LET mine == SelectSeq(visited, LAMBDA v : v.src_path = p)
        decls == DeclsOfText(Lookup(fs, p).text)
    IN [j \in 1..Len(mine) |-> [ident |-> mine[j].ident, span |-> mine[j].span]]
       = Repeat([j \in 1..Len(decls) |-> [ident |-> decls[j].ident, span |-> decls[j].span]],
                Count(resolved, p))

\* C21: an entry call in which no location is chosen while a visitor of the
\* chain is on it comes to its end, and at the end every bodiless
\* declaration of the initial file and of every file loaded has been
\* visited exactly once in each copy of the file that was loaded.
C21_AcyclicTerminates ==
    /\ (pc = "running") ~> (Done \/ Revisit)
    /\ [](DoneOk =>
            /\ resolved[1] = src_file
            /\ \A k \in 1..Len(resolved) : ~Fails(resolved[k]) => VisitedOnce(resolved[k])
            /\ \A k \in 1..Len(visited) :
                  \E j \in 1..Len(resolved) :
                      resolved[j] = visited[k].src_path /\ ~Fails(resolved[j]))

\* C21 witness: the call on src/dia.rs has ended after src/first/second.rs
\* was loaded for `a` and again for `b`, its declaration visited in each.
C21_Witness ==
    /\ DoneOk /\ src_file = P_dia
    /\ Count(resolved, P_second) = 2
    /\ Len(SelectSeq(visited, LAMBDA v : v.src_path = P_second)) = 2
    /\ Len(expanded) = 4
    /\ ~Revisit

====
